---- MODULE Spec2Model ----
(***************************************************************************)
(* Model of xtesting/core/campaign.py: Campaign.dump_db,                   *)
(* Campaign.dump_artifacts and Campaign.zip_campaign_files.                *)
(*                                                                         *)
(* Strings are sequences of one-character strings, so that the regular     *)
(* expressions, the percent-decoding and the path operations of the code   *)
(* are computed character by character.                                    *)
(***************************************************************************)
EXTENDS Integers, Sequences, FiniteSets, Bags, TLC

(***************************************************************************)
(* Bounds of the model.                                                    *)
(***************************************************************************)
\* number of runs of zip_campaign_files in one working directory
MaxRuns == 2
\* number of objects the bucket holds when it is listed
MaxObjects == 2
\* length of the free tail of a link in the link specification
MaxTail == 2

(***************************************************************************)
(* Outcome codes.                                                          *)
(***************************************************************************)
EX_OK == 0
EX_SOFTWARE == 70
EX_DUMP_FROM_DB_ERROR == EX_SOFTWARE - 5
EX_DUMP_ARTIFACTS_ERROR == EX_SOFTWARE - 6
EX_ZIP_CAMPAIGN_FILES_ERROR == EX_SOFTWARE - 7

(***************************************************************************)
(* Character strings.                                                      *)
(***************************************************************************)
EmptyStr == << >>
Slash == "/"

StartsWith(s, p) ==
    /\ Len(p) <= Len(s)
    /\ \A i \in 1..Len(p) : s[i] = p[i]

Drop(s, n) == SubSeq(s, n + 1, Len(s))

\* the index of the first character of s, from position i on, that is not c
\* (Len(s) + 1 when there is none)
RECURSIVE SkipChar(_, _, _)
SkipChar(s, c, i) ==
    IF i <= Len(s) /\ s[i] = c THEN SkipChar(s, c, i + 1) ELSE i

\* the index of the last character of s, up to position i, that is not c
\* (0 when there is none)
RECURSIVE SkipCharBack(_, _, _)
SkipCharBack(s, c, i) ==
    IF i >= 1 /\ s[i] = c THEN SkipCharBack(s, c, i - 1) ELSE i

\* str.strip("/")
StripSlashes(s) ==
    LET a == SkipChar(s, Slash, 1)
        b == SkipCharBack(s, Slash, Len(s))
    IN  IF a > b THEN EmptyStr ELSE SubSeq(s, a, b)

\* the index of the first occurrence of c in s from position i on
\* (Len(s) + 1 when there is none)
RECURSIVE FindChar(_, _, _)
FindChar(s, c, i) ==
    IF i <= Len(s) /\ s[i] # c THEN FindChar(s, c, i + 1) ELSE i

\* the index of the last occurrence of c in s up to position i (0 when none)
RECURSIVE FindCharBack(_, _, _)
FindCharBack(s, c, i) ==
    IF i >= 1 /\ s[i] # c THEN FindCharBack(s, c, i - 1) ELSE i

(***************************************************************************)
(* Regular expressions of the shape ^<atoms>/* used with re.sub(.., '', s) *)
(* and an atom is a literal character, "." or a character class, or one of *)
(* these repeated by "+".                                                  *)
(***************************************************************************)
Lit(c) == [kind |-> "lit", chars |-> {c}]
AnyChar == [kind |-> "any", chars |-> {}]
Class(cs) == [kind |-> "class", chars |-> cs]
OneOrMore(a) == [kind |-> "plus", chars |-> {}, of |-> a]

AtomMatches(a, c) ==
    IF a.kind = "any" THEN c # "\n" ELSE c \in a.chars

\* the number of characters of s after the first n that the atom matches one
\* after the other
RECURSIVE RunLength(_, _, _)
RunLength(a, s, n) ==
    IF n < Len(s) /\ AtomMatches(a, s[n + 1])
    THEN 1 + RunLength(a, s, n + 1) ELSE 0

\* the match of atoms[i], atoms[i + 1], ... after the first n characters of
\* s, as the backtracking matcher finds it: the number of characters of s
\* the whole match covers, or -1 when there is no match; a repetition takes
\* as many characters as the atoms after it allow
RECURSIVE MatchEnd(_, _, _, _)
MatchEnd(atoms, i, s, n) ==
    IF i > Len(atoms) THEN n
    ELSE IF atoms[i].kind # "plus"
    THEN IF n < Len(s) /\ AtomMatches(atoms[i], s[n + 1])
         THEN MatchEnd(atoms, i + 1, s, n + 1)
         ELSE -1
    ELSE LET ok == { k \in 1..RunLength(atoms[i].of, s, n) :
                        MatchEnd(atoms, i + 1, s, n + k) >= 0 }
         IN  IF ok = {} THEN -1
             ELSE MatchEnd(atoms, i + 1, s,
                           n + (CHOOSE k \in ok : \A m \in ok : m <= k))

\* the atoms match at the start of s
MatchesAtStart(atoms, s) == MatchEnd(atoms, 1, s, 0) >= 0

\* re.sub('^' + atoms + '/*', '', s): the pattern is anchored at the start, so
\* at most one match is replaced; "/*" is greedy and nothing follows it
ReSubPrefix(atoms, s) ==
    IF MatchesAtStart(atoms, s)
    THEN Drop(s, SkipChar(s, Slash, MatchEnd(atoms, 1, s, 0) + 1) - 1)
    ELSE s

\* a string read as a regular expression, from position i on: "." is any
\* character, "+" repeats what precedes it, every other character of the
\* strings of this model is a literal (no string of this model begins with
\* "+" or has two of them in a row, which are errors of the pattern)
RECURSIVE AtomsFrom(_, _)
AtomsFrom(s, i) ==
    IF i > Len(s) THEN << >>
    ELSE LET a == IF s[i] = "." THEN AnyChar ELSE Lit(s[i])
         IN  IF i < Len(s) /\ s[i + 1] = "+"
             THEN << OneOrMore(a) >> \o AtomsFrom(s, i + 2)
             ELSE << a >> \o AtomsFrom(s, i + 1)

AtomsOf(s) == AtomsFrom(s, 1)

(***************************************************************************)
(* Library functions the code calls, computed as the library computes      *)
(* them on the strings of this model.                                      *)
(***************************************************************************)
\* the two-character escapes that occur in the keys of this model
HexTable ==
    << "2", "F" >> :> "/" @@ << "2", "f" >> :> "/" @@ << "2", "0" >> :> " "
    @@ << "2", "B" >> :> "+" @@ << "2", "5" >> :> "%"

\* urllib.parse.unquote_plus: "+" is a space, %XX is the character XX, a "%"
\* that no two hexadecimal digits follow stays as it is
RECURSIVE UnquotePlusFrom(_, _)
UnquotePlusFrom(s, i) ==
    IF i > Len(s) THEN EmptyStr
    ELSE IF s[i] = "+" THEN << " " >> \o UnquotePlusFrom(s, i + 1)
    ELSE IF /\ s[i] = "%"
            /\ i + 2 <= Len(s)
            /\ << s[i + 1], s[i + 2] >> \in DOMAIN HexTable
         THEN << HexTable[<< s[i + 1], s[i + 2] >>] >> \o UnquotePlusFrom(s, i + 3)
    ELSE << s[i] >> \o UnquotePlusFrom(s, i + 1)

UnquotePlus(s) == UnquotePlusFrom(s, 1)

\* os.path.split: the head is what precedes the last slash, without its
\* trailing slashes unless it is made of slashes only
PathSplit(p) ==
    LET i == FindCharBack(p, Slash, Len(p))
        head == SubSeq(p, 1, i)
        j == SkipCharBack(head, Slash, Len(head))
    IN  [head |-> IF j = 0 THEN head ELSE SubSeq(head, 1, j),
         tail |-> Drop(p, i)]

\* os.path.join of two components
PathJoin(a, b) ==
    IF Len(b) > 0 /\ b[1] = Slash THEN b
    ELSE IF Len(a) = 0 \/ a[Len(a)] = Slash THEN a \o b
    ELSE a \o << Slash >> \o b

\* urllib.parse.urlparse of <scheme>://<netloc><path>
UrlParse(u) ==
    LET c == FindChar(u, ":", 1)
        hasNetloc == /\ c + 2 <= Len(u)
                     /\ u[c + 1] = Slash
                     /\ u[c + 2] = Slash
        e == FindChar(u, Slash, c + 3)
    IN  IF hasNetloc
        THEN [netloc |-> SubSeq(u, c + 3, e - 1), path |-> Drop(u, e - 1)]
        ELSE [netloc |-> EmptyStr, path |-> Drop(u, IF c <= Len(u) THEN c ELSE 0)]

(***************************************************************************)
(* The environment of a run.                                               *)
(***************************************************************************)
Unset == [set |-> FALSE, value |-> EmptyStr]
Value(v) == [set |-> TRUE, value |-> v]

\* BUILD_TAG
BuildTag == <<"b">>
\* the values S3_ENDPOINT_URL takes when it is set
EndpointPlain == <<"h", ":", "/", "/", "m">>
EndpointGoogle == <<"h", ":", "/", "/", "g", "o", "o", "g", "l", "e">>
\* the value S3_DST_URL takes when it is set
DstUrl == <<"s", "3", ":", "/", "/", "k", "/", "p">>
\* the value HTTP_DST_URL takes when it is set
HttpDstUrl == <<"h", ":", "/", "/", "i">>

Envs ==
    [S3_ENDPOINT_URL : {Unset, Value(EndpointPlain), Value(EndpointGoogle)},
     S3_DST_URL : {Unset, Value(DstUrl)},
     HTTP_DST_URL : {Unset, Value(HttpDstUrl)}]

\* os.environ[name] raises KeyError when the variable is not set
Raises(e, name) == ~e[name].set

(***************************************************************************)
(* dump_db: the rewrite of the links.                                      *)
(***************************************************************************)
\* The pattern of line 81 is not an f-string: it is the text
\* ^{os.environ['HTTP_DST_URL']}/* itself, in which "{" and "}" are literals,
\* "." is any character and ['HTTP_DST_URL'] is a character class.
DbLinkPattern ==
    << Lit("{"), Lit("o"), Lit("s"), AnyChar,
       Lit("e"), Lit("n"), Lit("v"), Lit("i"), Lit("r"), Lit("o"), Lit("n"),
       Class({"'", "H", "T", "P", "_", "D", "S", "U", "R", "L"}),
       Lit("}") >>

\* the rewrite as it would be with a pattern that lacks the anchor "^": every
\* match is removed, wherever it begins
RECURSIVE RewriteLinkUnanchored(_)
RewriteLinkUnanchored(lnk) ==
    LET at == { i \in 0..Len(lnk) : MatchesAtStart(DbLinkPattern, Drop(lnk, i)) }
    IN  IF at = {} THEN lnk
        ELSE LET i == CHOOSE n \in at : \A m \in at : n <= m
             IN  SubSeq(lnk, 1, i)
                 \o RewriteLinkUnanchored(ReSubPrefix(DbLinkPattern, Drop(lnk, i)))

\* line 80-82, for one link
RewriteLink(lnk) == ReSubPrefix(DbLinkPattern, lnk)

\* line 77-82: every link of every result
RewriteLinks(results) ==
    [i \in 1..Len(results) |->
        [j \in 1..Len(results[i]) |-> RewriteLink(results[i][j])]]

(***************************************************************************)
(* The answers of the results API.  A CampaignResult is the sequence of    *)
(* its results, a result the sequence of its details.links.                *)
(***************************************************************************)
\* http://internal/x/a.log of the scenario, shortened: h://i/x/a
LinkInternal == HttpDstUrl \o <<"/", "x", "/", "a">>
LinkRelative == <<"x", "/", "a">>
LinkBraces == <<"{", "o", "s", ".", "e", "n", "v", "i", "r", "o", "n", "H", "}", "/", "/", "x">>

ResultsA == << << LinkInternal >> >>
ResultsB == << << LinkRelative, LinkBraces >>, << >> >>

\* The answers on which line 71-82 raise: the request fails, the status is an
\* error, the body is no JSON, the body has no "results" or a result has no
\* details.links.
RaisingKinds == {"conn_error", "http_error", "bad_json", "no_results"}

\* The answers on which line 71-82 raise nothing: a CampaignResult ("ok"),
\* and the body {"results": {}}, which is no CampaignResult but over which
\* the loop of line 77 iterates zero times ("results_object").  The code
\* treats {"results": ""} and a result whose details.links is "" or {} the
\* same way: nothing is iterated over, nothing is checked, the body is
\* written as it came.
AcceptedKinds == {"ok", "results_object"}

\* ResultsB, a campaign of two results, is among the answers dump_db is
\* called on by itself (LinkAnswers).
ApiAnswers ==
    { [kind |-> k, results |-> << >>] : k \in RaisingKinds }
    \cup { [kind |-> "ok", results |-> ResultsA] }
    \cup { [kind |-> "results_object", results |-> << >>] }

NoAnswer == [kind |-> "none", results |-> << >>]

(***************************************************************************)
(* The object store.  A bucket maps the keys of its objects to their       *)
(* contents.  A listing reports every key percent-encoded.                 *)
(***************************************************************************)
KeyX == <<"p", "/", "b", "/", "x">>
KeySY == <<"p", "/", "b", "/", "s", "/", "y">>
KeyS == <<"p", "/", "b", "/", "s">>
KeyPlus == <<"p", "/", "b", "/", "+", " ">>
KeyOther == <<"p", "/", "b", "x">>
\* the keys an object of the build can have
KeyUniverse == {KeyX, KeySY, KeyS, KeyPlus}

\* the contents an object or a file can have
Contents == {"v1", "v2"}

NoFiles == [k \in {} |-> "v1"]

\* the object of another build, whose key begins with the path and the
\* build tag but not with the prefix of the listing
OtherBuild == [k \in {KeyOther} |-> "v1"]

\* a bucket holds the object of the other build and at most MaxObjects
\* objects of the build
Buckets ==
    { b @@ OtherBuild :
        b \in UNION { [ks -> Contents] :
                        ks \in {x \in SUBSET KeyUniverse :
                                    Cardinality(x) <= MaxObjects} } }

\* the code points of the characters of the keys
Ascii ==
    " " :> 32 @@ "%" :> 37 @@ "+" :> 43 @@ "." :> 46 @@ "/" :> 47 @@ "2" :> 50
    @@ "B" :> 66 @@ "F" :> 70 @@ "a" :> 97 @@ "b" :> 98 @@ "p" :> 112 @@ "s" :> 115 @@ "x" :> 120 @@ "y" :> 121

\* a precedes b in the order of the code points, from position i on
RECURSIVE StrLess(_, _, _)
StrLess(a, b, i) ==
    IF i > Len(a) THEN i <= Len(b)
    ELSE IF i > Len(b) THEN FALSE
    ELSE IF a[i] = b[i] THEN StrLess(a, b, i + 1)
    ELSE Ascii[a[i]] < Ascii[b[i]]

RECURSIVE SortKeys(_)
SortKeys(ks) ==
    IF ks = {} THEN << >>
    ELSE LET m == CHOOSE k \in ks : \A o \in ks \ {k} : StrLess(k, o, 1)
         IN  << m >> \o SortKeys(ks \ {m})

\* the percent-encoding of a key in a listing: a space is "+", and "+" and
\* "%" are escaped
RECURSIVE QuoteKeyFrom(_, _)
QuoteKeyFrom(k, i) ==
    IF i > Len(k) THEN EmptyStr
    ELSE (CASE k[i] = " " -> << "+" >>
            [] k[i] = "+" -> << "%", "2", "B" >>
            [] k[i] = "%" -> << "%", "2", "5" >>
            [] OTHER -> << k[i] >>) \o QuoteKeyFrom(k, i + 1)

QuoteKey(k) == QuoteKeyFrom(k, 1)

\* objects.filter(Prefix=...): the objects whose key begins with the prefix,
\* in the order of the store's listing, each with its key as listed
ListObjectKeys(bkt, prefix) ==
    LET sorted == SortKeys({k \in DOMAIN bkt : StartsWith(k, prefix)})
    IN  [i \in 1..Len(sorted) |-> QuoteKey(sorted[i])]

(***************************************************************************)
(* dump_artifacts: the names it computes.                                  *)
(***************************************************************************)
\* line 125-126: in ^/*(.*)/*$ the greedy group takes everything after the
\* leading slashes, trailing slashes included
S3Path(dst) ==
    LET path == UrlParse(dst).path
    IN  Drop(path, SkipChar(path, Slash, 1) - 1)

\* line 127 and 130
ListPrefix(dst) == PathJoin(S3Path(dst), BuildTag) \o << Slash >>

\* line 131-133
LocalDir(dst, key) ==
    ReSubPrefix(AtomsOf(S3Path(dst)), PathSplit(UnquotePlus(key)).head)

\* line 143-144
LocalPath(dst, key) == ReSubPrefix(AtomsOf(S3Path(dst)), UnquotePlus(key))

\* s contains sub
Contains(s, sub) ==
    \E i \in 0..(Len(s) - Len(sub)) : StartsWith(Drop(s, i), sub)

\* a threshold is mult * 1024 ** pow bytes; 5 * 1024 ** 5 exceeds the integers
\* of the checker, so the two factors are kept apart
SmallThreshold == [mult |-> 8, pow |-> 2]
DisabledThreshold == [mult |-> 5, pow |-> 5]

\* line 121-122 and 187-188
MultipartThreshold(endpoint) ==
    IF Contains(endpoint, <<"g", "o", "o", "g", "l", "e">>)
    THEN DisabledThreshold ELSE SmallThreshold

\* line 121-123: the TransferConfig of the downloads
DownloadConfig(e) == MultipartThreshold(e.S3_ENDPOINT_URL.value)

\* an upload that always uses the small threshold
UploadConfigSmall(e) == SmallThreshold

\* line 187-189: the TransferConfig of the upload
UploadConfig(e) == MultipartThreshold(e.S3_ENDPOINT_URL.value)

(***************************************************************************)
(* The working directory: the regular files (path -> content) and the      *)
(* directories.                                                            *)
(***************************************************************************)
\* the path and every directory above it
Ancestors(p) ==
    { SubSeq(p, 1, i - 1) : i \in { n \in 2..Len(p) : p[n] = Slash } } \cup {p}

\* os.path.exists
PathExists(fs, ds, p) == p \in DOMAIN fs \/ p \in ds

\* os.makedirs raises when a component of the path is a regular file
MakedirsRaises(fs, p) == \E a \in Ancestors(p) : a \in DOMAIN fs

\* line 134-135: the directories after the step, when makedirs does not raise
DirsAfterMakedirs(fs, ds, lpath) ==
    IF lpath # EmptyStr /\ ~PathExists(fs, ds, lpath)
    THEN ds \cup Ancestors(lpath)
    ELSE ds

\* line 134-135 raises
MakedirsStepRaises(fs, ds, lpath) ==
    /\ lpath # EmptyStr
    /\ ~PathExists(fs, ds, lpath)
    /\ MakedirsRaises(fs, lpath)

\* download_file cannot store the object at the target: the target names a
\* directory, or the directory it lies in does not exist
TargetUnwritable(ds, target) ==
    LET parent == PathSplit(target).head
    IN  \/ target = EmptyStr
        \/ target[Len(target)] = Slash
        \/ target \in ds
        \/ parent # EmptyStr /\ parent \notin ds

\* line 141-145: the files after a download that succeeds
StoreDownload(fs, target, content) ==
    [p \in DOMAIN fs \cup {target} |-> IF p = target THEN content ELSE fs[p]]

(***************************************************************************)
(* zip_campaign_files: the names it computes.                              *)
(***************************************************************************)
JsonName == BuildTag \o <<".", "j", "s", "o", "n">>
ZipName == BuildTag \o <<".", "z", "i", "p">>

\* the assertions as they would be if the outcome were not compared
DumpDbNotAsserted(code) == TRUE
DumpArtifactsNotAsserted(code) == TRUE

\* line 176 and 177: the assertion on the outcome of a stage
DumpDbAsserted(code) == code = EX_OK
DumpArtifactsAsserted(code) == code = EX_OK

\* line 181-183: os.walk(build_tag) yields the regular files below the
\* directory <BUILD_TAG>, when it is a directory
WalkedFiles(fs, ds) ==
    IF BuildTag \in ds
    THEN { p \in DOMAIN fs : StartsWith(p, BuildTag \o << Slash >>) }
    ELSE {}

\* an archive to which the walked directories are written as well
ArchiveMembersWithDirs(fs, ds) ==
    SetToBag({JsonName})
    (+) SetToBag({ p \in DOMAIN fs \cup ds : StartsWith(p, BuildTag) })

\* line 178-183: the members written to a new archive, a bag of member
\* names: the JSON document, then every walked file
ArchiveMembers(fs, ds) ==
    SetToBag({JsonName}) (+) SetToBag(WalkedFiles(fs, ds))

\* the directory a file lies in
DirOf(p) == PathSplit(p).head

\* line 178-183 when a write raises: the with statement closes the archive
\* with the members written before the failure.  Nothing when the write of
\* the JSON document raised; else the JSON document and the files os.walk
\* had yielded, which is top-down: the files of a directory come before
\* those of the directories below it, in an order the file system chooses.
MembersBeforeFailure(fs, ds) ==
    LET all == WalkedFiles(fs, ds)
        before == { T \in SUBSET all :
                      /\ T # all
                      /\ \A f \in T, g \in all \ T :
                          ~StartsWith(DirOf(f), DirOf(g) \o << Slash >>) }
    IN  {EmptyBag}
        \cup { SetToBag({JsonName}) (+) SetToBag(T) : T \in before }

\* line 191 and 198-199: mimetypes.guess_type of a name that ends in .zip
ContentType == "application/zip"

\* line 192 and 196
UploadKey(dst) == PathJoin(StripSlashes(UrlParse(dst).path), ZipName)

\* line 201
PublishedLink(base) == PathJoin(base, ZipName)

(***************************************************************************)
(* State.                                                                  *)
(***************************************************************************)
VARIABLES
    run,        \* the number of the current run in this working directory
    pc,         \* the stage of the current run
    env,        \* the environment of the current run
    api,        \* the answer of the results API in this run
    bucket,     \* the bucket as it was listed in this run
    listing,    \* the keys returned by the listing of this run
    listed,     \* whether dump_artifacts has listed the bucket in this run
    idx,        \* the position of the next key of the listing to download
    jsonFile,   \* the file <BUILD_TAG>.json
    files,      \* the regular files below the working directory (the tree)
    dirs,       \* the directories below the working directory
    zipFile,    \* the file <BUILD_TAG>.zip
    published,  \* the archive this run stored in the object store
    dbRet,      \* what dump_db returned in this run
    artRet,     \* what dump_artifacts returned in this run
    ret,        \* what zip_campaign_files returned in this run
    raised,     \* the exception raised in the body of zip_campaign_files
    branch,     \* the except clause zip_campaign_files left through
    link,       \* the link logged on success
    ops,        \* the external operations performed in this run
    atStart,    \* <BUILD_TAG>.json and <BUILD_TAG>.zip when the run began
    replay,     \* the run repeats the previous one on unchanged upstream data
    tconfig,    \* the transfer configuration dump_artifacts built in this run
    given       \* the record dump_db parsed, when dump_db is called by itself

vars ==
    << run, pc, env, api, bucket, listing, listed, idx, jsonFile, files, dirs,
       zipFile, published, dbRet, artRet, ret, raised, branch, link, ops,
       atStart, replay, tconfig, given >>

NoCode == EX_OK - 1
\* <BUILD_TAG>.json: whether it exists, the kind of document it holds ("ok":
\* a CampaignResult, "results_object": {"results": {}}, "truncated": the file
\* was opened in mode "w" and the document was not written to its end) and
\* the links of the document
NoJson == [exists |-> FALSE, kind |-> "none", data |-> << >>]
Truncated == [exists |-> TRUE, kind |-> "truncated", data |-> << >>]
NoZip == [exists |-> FALSE, members |-> EmptyBag]
NotPublished ==
    [exists |-> FALSE, key |-> EmptyStr, members |-> EmptyBag,
     contentType |-> "", threshold |-> SmallThreshold]
\* no transfer configuration has been built
NoConfig == [mult |-> 0, pow |-> 0]
NoOps == [get |-> 0, list |-> 0, download |-> 0, archive |-> 0, upload |-> 0]

Terminal == {"DONE", "FAILED"}

\* the per-run variables when a run begins
RunBegins ==
    /\ pc' = "START"
    /\ listing' = << >>
    /\ listed' = FALSE
    /\ idx' = 1
    /\ dbRet' = NoCode
    /\ artRet' = NoCode
    /\ ret' = NoCode
    /\ raised' = "none"
    /\ branch' = "none"
    /\ tconfig' = NoConfig
    /\ link' = EmptyStr
    /\ published' = NotPublished
    /\ ops' = NoOps

Init ==
    /\ run = 1
    /\ pc = "START"
    /\ env \in Envs
    /\ api = NoAnswer
    /\ bucket = NoFiles
    /\ listing = << >>
    /\ listed = FALSE
    /\ idx = 1
    /\ jsonFile = NoJson
    /\ files = NoFiles
    /\ dirs = {}
    /\ zipFile = NoZip
    /\ published = NotPublished
    /\ dbRet = NoCode
    /\ artRet = NoCode
    /\ ret = NoCode
    /\ raised = "none"
    /\ branch = "none"
    /\ tconfig = NoConfig
    /\ link = EmptyStr
    /\ ops = NoOps
    /\ atStart = [json |-> NoJson, zip |-> NoZip]
    /\ replay = FALSE
    /\ given = << >>

\* the except clauses as they would be with the broad clause in front
ExceptClauseBroadFirst(exc) == "Exception"

\* the except clauses as they would be without the broad clause
ExceptClauseNotBroad(exc) ==
    IF exc \in {"KeyError", "NoCredentialsError"} THEN exc ELSE "escaped"

\* line 205-215: the except clause that catches an exception raised in the
\* body of zip_campaign_files; AssertionError, OSError, ValueError and the
\* errors of the transfer are caught by the broad clause
ExceptClause(exc) ==
    IF exc \in {"KeyError", "NoCredentialsError"} THEN exc ELSE "Exception"

\* zip_campaign_files leaves through an except clause (line 205-215); an
\* exception no clause catches leaves it without a return value
Fails(exc) ==
    /\ pc' = "FAILED"
    /\ raised' = exc
    /\ branch' = ExceptClause(exc)
    /\ ret' = IF ExceptClause(exc) = "escaped"
              THEN NoCode ELSE EX_ZIP_CAMPAIGN_FILES_ERROR

\* main() is run again in the same working directory.  Either the
\* environment and the upstream data are whatever they are by then, or
\* (after a run that succeeded) the run is repeated with the same environment
\* on unchanged upstream data: the API gives the same answer and the bucket
\* holds the same objects.
NewRun ==
    /\ pc \in Terminal
    /\ run < MaxRuns
    /\ run' = run + 1
    /\ RunBegins
    /\ atStart' = [json |-> jsonFile, zip |-> zipFile]
    /\ \/ /\ replay' = FALSE
          /\ env' \in Envs
          /\ api' = NoAnswer
          /\ bucket' = NoFiles
       \/ /\ pc = "DONE"
          /\ replay' = TRUE
          /\ UNCHANGED << env, api, bucket >>
    /\ UNCHANGED << jsonFile, files, dirs, zipFile, given >>

\* line 174-175
Begin ==
    /\ pc = "START"
    /\ pc' = "FETCHING"
    /\ UNCHANGED << run, env, api, bucket, listing, listed, idx, jsonFile, files,
                    dirs, zipFile, published, dbRet, artRet, ret, raised, branch, link, ops,
                    atStart, replay, tconfig, given >>

\* line 84-86: what becomes of writing <BUILD_TAG>.json: open(..., "w") and
\* json.dump succeed, open raises, or open succeeds (the file is truncated)
\* and json.dump or the close raises
FileOutcomes == {"written", "open_fails", "write_fails"}

\* dump_db (line 69-91): what it returns, given the answer of the API and
\* the outcome of writing <BUILD_TAG>.json
DumpDbCode(answer, out) ==
    IF answer.kind \in AcceptedKinds /\ out = "written"
    THEN EX_OK
    ELSE EX_DUMP_FROM_DB_ERROR

\* dump_db as it would be if it opened the file in mode "a"
DumpDbFileAppends(old, answer, out) ==
    IF answer.kind \in AcceptedKinds /\ out # "open_fails"
    THEN [exists |-> TRUE,
          kind |-> IF out = "written" THEN answer.kind ELSE "truncated",
          data |-> old.data \o RewriteLinks(answer.results)]
    ELSE old

\* dump_db (line 84-86): <BUILD_TAG>.json after the call.  The file is
\* reached only when line 71-82 raised nothing; open in mode "w" empties it
\* before json.dump writes.
DumpDbFile(old, answer, out) ==
    IF answer.kind \in AcceptedKinds
    THEN CASE out = "written" ->
                [exists |-> TRUE, kind |-> answer.kind,
                 data |-> RewriteLinks(answer.results)]
           [] out = "write_fails" -> Truncated
           [] OTHER -> old
    ELSE old

\* line 176: dump_db as a whole, and the assertion on its outcome
DumpDb ==
    /\ pc = "FETCHING"
    /\ \E answer \in ApiAnswers, out \in FileOutcomes :
        /\ answer.kind \in RaisingKinds => out = "written"
        /\ replay => answer = api
        /\ api' = answer
        /\ ops' = [ops EXCEPT !.get = @ + 1]
        /\ jsonFile' = DumpDbFile(jsonFile, answer, out)
        /\ dbRet' = DumpDbCode(answer, out)
        /\ IF DumpDbAsserted(dbRet')
           THEN pc' = "COLLECTING" /\ UNCHANGED << ret, raised, branch >>
           ELSE Fails("AssertionError")
    /\ UNCHANGED << run, env, bucket, listing, listed, idx, files, dirs, zipFile,
                    published, artRet, link, atStart, replay, tconfig, given >>

\* dump_artifacts as it would be if its except clause returned EX_OK
DumpArtifactsRaisesReturnsOk ==
    /\ artRet' = EX_OK
    /\ pc' = "ARCHIVING"
    /\ UNCHANGED << ret, raised, branch >>

\* dump_artifacts as it would be if a failure were logged and the call tried
\* again
DumpArtifactsRaisesRetries == UNCHANGED << pc, artRet, ret, raised, branch >>

\* dump_artifacts raised: line 147-149, then the assertion of line 177 fails
DumpArtifactsRaises ==
    /\ artRet' = EX_DUMP_ARTIFACTS_ERROR
    /\ IF DumpArtifactsAsserted(artRet')
       THEN pc' = "ARCHIVING" /\ UNCHANGED << ret, raised, branch >>
       ELSE Fails("AssertionError")

\* line 177, dump_artifacts line 116-130: the environment and the listing,
\* of a bucket that is one of bkts
ListObjectsOf(bkts) ==
    /\ pc = "COLLECTING"
    /\ ~listed
    /\ IF Raises(env, "S3_ENDPOINT_URL") \/ Raises(env, "S3_DST_URL")
       THEN /\ DumpArtifactsRaises
            /\ UNCHANGED << bucket, listing, listed, ops, tconfig >>
       ELSE \E outcome \in {"ok", "no_credentials", "error"} :
            /\ tconfig' = DownloadConfig(env)
            /\ ops' = [ops EXCEPT !.list = @ + 1]
            /\ IF outcome = "ok"
               THEN \E b \in bkts :
                    /\ replay => b = bucket
                    /\ bucket' = b
                    /\ listing' = ListObjectKeys(b, ListPrefix(env.S3_DST_URL.value))
                    /\ listed' = TRUE
                    /\ UNCHANGED << pc, artRet, ret, raised, branch >>
               ELSE /\ DumpArtifactsRaises
                    /\ UNCHANGED << bucket, listing, listed >>
    /\ UNCHANGED << run, env, api, idx, jsonFile, files, dirs, zipFile,
                    published, dbRet, link, atStart, replay, given >>

ListObjects == ListObjectsOf(Buckets)

\* dump_artifacts line 131-145: the next object of the listing
DownloadNext ==
    /\ pc = "COLLECTING"
    /\ listed
    /\ idx <= Len(listing)
    /\ LET dst == env.S3_DST_URL.value
           key == listing[idx]
           lpath == LocalDir(dst, key)
           target == LocalPath(dst, key)
           dirs1 == DirsAfterMakedirs(files, dirs, lpath)
       IN  IF MakedirsStepRaises(files, dirs, lpath)
           THEN /\ DumpArtifactsRaises
                /\ UNCHANGED << idx, files, dirs, ops >>
           ELSE \E transfer \in {"ok", "error"} :
                /\ ops' = [ops EXCEPT !.download = @ + 1]
                /\ dirs' = dirs1
                /\ IF /\ transfer = "ok"
                      /\ UnquotePlus(key) \in DOMAIN bucket
                      /\ ~TargetUnwritable(dirs1, target)
                   THEN /\ files' = StoreDownload(files, target,
                                                  bucket[UnquotePlus(key)])
                        /\ idx' = idx + 1
                        /\ UNCHANGED << pc, artRet, ret, raised, branch >>
                   ELSE /\ DumpArtifactsRaises
                        /\ UNCHANGED << idx, files >>
    /\ UNCHANGED << run, env, api, bucket, listing, listed, jsonFile, zipFile,
                    published, dbRet, link, atStart, replay, tconfig, given >>

\* dump_artifacts line 146, then the assertion of line 177
CollectDone ==
    /\ pc = "COLLECTING"
    /\ listed
    /\ idx > Len(listing)
    /\ artRet' = EX_OK
    /\ IF DumpArtifactsAsserted(artRet')
       THEN pc' = "ARCHIVING" /\ UNCHANGED << ret, raised, branch >>
       ELSE Fails("AssertionError")
    /\ UNCHANGED << run, env, api, bucket, listing, listed, idx, jsonFile, files,
                    dirs, zipFile, published, dbRet, link, ops, atStart, replay, tconfig,
       given >>

\* line 178-183: <BUILD_TAG>.zip is opened in mode 'w' and filled
Archive ==
    /\ pc = "ARCHIVING"
    /\ \E outcome \in {"ok", "open_fails", "write_fails"} :
        /\ ops' = [ops EXCEPT !.archive = @ + 1]
        /\ CASE outcome = "ok" ->
                  /\ zipFile' = [exists |-> TRUE,
                                 members |-> ArchiveMembers(files, dirs)]
                  /\ pc' = "PUBLISHING"
                  /\ UNCHANGED << ret, raised, branch >>
             [] outcome = "open_fails" ->
                  /\ UNCHANGED zipFile
                  /\ Fails("OSError")
             [] outcome = "write_fails" ->
                  \E written \in MembersBeforeFailure(files, dirs),
                     exc \in {"OSError", "ValueError"} :
                    /\ zipFile' = [exists |-> TRUE, members |-> written]
                    /\ Fails(exc)
    /\ UNCHANGED << run, env, api, bucket, listing, listed, idx, jsonFile, files,
                    dirs, published, dbRet, artRet, link, atStart, replay, tconfig, given >>

\* line 194-199: the object the upload stores
Uploaded(e, zip) ==
    [exists |-> TRUE, key |-> UploadKey(e.S3_DST_URL.value),
     members |-> zip.members, contentType |-> ContentType,
     threshold |-> UploadConfig(e)]

\* line 184-204: the upload and the link
Publish ==
    /\ pc = "PUBLISHING"
    /\ IF Raises(env, "S3_ENDPOINT_URL") \/ Raises(env, "S3_DST_URL")
       THEN /\ Fails("KeyError")
            /\ UNCHANGED << published, link, ops >>
       ELSE \E outcome \in {"ok", "no_credentials", "error"} :
            /\ ops' = [ops EXCEPT !.upload = @ + 1]
            /\ CASE outcome = "ok" ->
                      /\ published' = Uploaded(env, zipFile)
                      /\ IF Raises(env, "HTTP_DST_URL")
                         THEN Fails("KeyError") /\ UNCHANGED link
                         ELSE /\ link' = PublishedLink(env.HTTP_DST_URL.value)
                              /\ ret' = EX_OK
                              /\ pc' = "DONE"
                              /\ UNCHANGED << raised, branch >>
                 [] outcome = "no_credentials" ->
                      /\ Fails("NoCredentialsError")
                      /\ UNCHANGED << published, link >>
                 [] outcome = "error" ->
                      /\ Fails("S3UploadFailedError")
                      /\ UNCHANGED << published, link >>
    /\ UNCHANGED << run, env, api, bucket, listing, listed, idx, jsonFile, files,
                    dirs, zipFile, dbRet, artRet, atStart, replay, tconfig, given >>

Next ==
    \/ Begin
    \/ DumpDb
    \/ ListObjects
    \/ DownloadNext
    \/ CollectDone
    \/ Archive
    \/ Publish
    \/ NewRun

Spec == Init /\ [][Next]_vars

TypeOK ==
    /\ run \in 1..MaxRuns
    /\ pc \in {"START", "FETCHING", "COLLECTING", "ARCHIVING", "PUBLISHING"} \cup Terminal
    /\ ret \in {NoCode, EX_OK, EX_ZIP_CAMPAIGN_FILES_ERROR}

(***************************************************************************)
(* dump_db called by itself, first on an answer of the API and then on     *)
(* the record it has written (the API answers with the rewritten record).  *)
(***************************************************************************)
Braces == <<"{", "o", "s", ".", "e", "n", "v", "i", "r", "o", "n", "H", "}">>
BracesOther == <<"{", "o", "s", "_", "e", "n", "v", "i", "r", "o", "n", "'", "}">>

LinkPrefixes ==
    { EmptyStr, HttpDstUrl, HttpDstUrl \o << Slash >> \o HttpDstUrl,
      Braces, BracesOther, Braces \o BracesOther,
      Braces \o << Slash >> \o Braces, << "x" >> \o Braces }

LinkTails == UNION { [1..n -> {Slash, "x"}] : n \in 0..MaxTail }

LinkInputs == { pre \o tail : pre \in LinkPrefixes, tail \in LinkTails }

LinkAnswers ==
    { [kind |-> "ok", results |-> << << l >> >>] : l \in LinkInputs }
    \cup { [kind |-> "ok", results |-> ResultsB] }
    \cup { a \in ApiAnswers : a.kind # "ok" }

FullEnv ==
    [S3_ENDPOINT_URL |-> Value(EndpointPlain), S3_DST_URL |-> Value(DstUrl),
     HTTP_DST_URL |-> Value(HttpDstUrl)]

InitLinks ==
    /\ run = 1
    /\ pc = "DUMP_DB"
    /\ env = FullEnv
    /\ api \in LinkAnswers
    /\ bucket = NoFiles
    /\ listing = << >>
    /\ listed = FALSE
    /\ idx = 1
    /\ jsonFile = NoJson
    /\ files = NoFiles
    /\ dirs = {}
    /\ zipFile = NoZip
    /\ published = NotPublished
    /\ dbRet = NoCode
    /\ artRet = NoCode
    /\ ret = NoCode
    /\ raised = "none"
    /\ branch = "none"
    /\ tconfig = NoConfig
    /\ link = EmptyStr
    /\ ops = NoOps
    /\ atStart = [json |-> NoJson, zip |-> NoZip]
    /\ replay = FALSE
    /\ given = << >>

\* dump_db (line 69-91) on the answer of the API
DumpDbAlone ==
    /\ pc = "DUMP_DB"
    /\ \E out \in FileOutcomes :
        /\ api.kind \in RaisingKinds => out = "written"
        /\ jsonFile' = DumpDbFile(jsonFile, api, out)
        /\ dbRet' = DumpDbCode(api, out)
    /\ given' = api.results
    /\ ops' = [ops EXCEPT !.get = @ + 1]
    /\ pc' = "RETURNED"
    /\ UNCHANGED << run, env, api, bucket, listing, listed, idx, files, dirs,
                    zipFile, published, artRet, ret, raised, branch, link, atStart,
                    replay, tconfig >>

\* dump_db (line 69-91) again, the API answering with the record written by
\* the call before
DumpDbAgain ==
    /\ pc = "RETURNED"
    /\ dbRet = EX_OK
    /\ run < MaxRuns
    /\ run' = run + 1
    /\ \E out \in FileOutcomes :
        LET answer == [kind |-> jsonFile.kind, results |-> jsonFile.data]
        IN  /\ given' = answer.results
            /\ jsonFile' = DumpDbFile(jsonFile, answer, out)
            /\ dbRet' = DumpDbCode(answer, out)
    /\ atStart' = [atStart EXCEPT !.json = jsonFile]
    /\ ops' = [ops EXCEPT !.get = @ + 1]
    /\ UNCHANGED << pc, env, api, bucket, listing, listed, idx, files, dirs,
                    zipFile, published, artRet, ret, raised, branch, link, replay, tconfig >>

NextLinks ==
    \/ DumpDbAlone
    \/ DumpDbAgain

SpecLinks == InitLinks /\ [][NextLinks]_vars


(***************************************************************************)
(* dump_artifacts (line 177) on other destinations: a path that ends in a  *)
(* slash, no path, and paths with characters that are special in a         *)
(* regular expression.                                                     *)
(***************************************************************************)
DstUrls ==
    { DstUrl,
      DstUrl \o << Slash >>,
      << "s", "3", ":", "/", "/", "k" >>,
      DstUrl \o << "." >>,
      << "s", "3", ":", "/", "/", "k", "/", "a", "+", "b" >>,
      << "s", "3", ":", "/", "/", "k", "/", "a", "+" >> }

\* what follows <path>/<BUILD_TAG>/ in the key of an object of the build
KeyTails == { << "x" >>, << "s", "/", "y" >>, << "+", " " >> }

\* the buckets with at most MaxObjects objects under the prefix of dst
BucketsUnder(dst) ==
    UNION { [{ ListPrefix(dst) \o t : t \in ts } -> Contents] :
              ts \in {x \in SUBSET KeyTails : Cardinality(x) <= MaxObjects} }

\* the state in which zip_campaign_files calls dump_artifacts (line 177) in a
\* first run: dump_db has returned EX_OK, after one GET and after writing
\* <BUILD_TAG>.json
InitPaths ==
    /\ run = 1
    /\ pc = "COLLECTING"
    /\ \E d \in DstUrls : env = [FullEnv EXCEPT !.S3_DST_URL = Value(d)]
    /\ api \in { a \in ApiAnswers : a.kind \in AcceptedKinds }
    /\ bucket = NoFiles
    /\ listing = << >>
    /\ listed = FALSE
    /\ idx = 1
    /\ jsonFile = DumpDbFile(NoJson, api, "written")
    /\ files = NoFiles
    /\ dirs = {}
    /\ zipFile = NoZip
    /\ published = NotPublished
    /\ dbRet = DumpDbCode(api, "written")
    /\ artRet = NoCode
    /\ ret = NoCode
    /\ raised = "none"
    /\ branch = "none"
    /\ tconfig = NoConfig
    /\ link = EmptyStr
    /\ ops = [NoOps EXCEPT !.get = 1]
    /\ atStart = [json |-> NoJson, zip |-> NoZip]
    /\ replay = FALSE
    /\ given = << >>

ListObjectsUnder == ListObjectsOf(BucketsUnder(env.S3_DST_URL.value))

NextPaths ==
    \/ ListObjectsUnder
    \/ DownloadNext
    \/ CollectDone

SpecPaths == InitPaths /\ [][NextPaths]_vars

(***************************************************************************)
(* Properties of the pipeline.                                             *)
(***************************************************************************)
NonTerminal == {"START", "FETCHING", "COLLECTING", "ARCHIVING", "PUBLISHING"}

StageSteps ==
    { << "START", "FETCHING" >>, << "FETCHING", "COLLECTING" >>,
      << "COLLECTING", "ARCHIVING" >>, << "ARCHIVING", "PUBLISHING" >>,
      << "PUBLISHING", "DONE" >> }

\* a step of a run: the next stage, or the failed state
RunSteps == StageSteps \cup { << s, "FAILED" >> : s \in NonTerminal }

\* C1: within a run the stages follow one another in the order fetch,
\* collect, archive, publish, done; a stage is entered only when the one
\* before it has succeeded; every external operation is performed in its own
\* stage; and once the run is DONE or FAILED nothing more is performed (the
\* only step left is the beginning of another run).
C1_StageOrder ==
    [][ /\ pc' # pc =>
            \/ << pc, pc' >> \in RunSteps
            \/ pc \in Terminal /\ pc' = "START" /\ run' = run + 1
        /\ pc = "FETCHING" /\ pc' = "COLLECTING" =>
            dbRet' = EX_OK /\ jsonFile'.exists
        /\ pc = "COLLECTING" /\ pc' = "ARCHIVING" =>
            artRet' = EX_OK /\ listed /\ ops.download = Len(listing)
        /\ pc = "ARCHIVING" /\ pc' = "PUBLISHING" =>
            zipFile'.exists /\ ops'.archive = 1
        /\ pc = "PUBLISHING" /\ pc' = "DONE" =>
            published'.exists /\ ret' = EX_OK
        /\ ops'.get > ops.get => pc = "FETCHING"
        /\ ops'.list > ops.list \/ ops'.download > ops.download =>
            pc = "COLLECTING"
        /\ ops'.archive > ops.archive => pc = "ARCHIVING"
        /\ ops'.upload > ops.upload => pc = "PUBLISHING"
        /\ jsonFile' # jsonFile => pc = "FETCHING"
        /\ files' # files \/ dirs' # dirs => pc = "COLLECTING"
        /\ zipFile' # zipFile => pc = "ARCHIVING"
        /\ published'.exists /\ published' # published => pc = "PUBLISHING"
      ]_vars

\* C1 witness: a run that went through every stage, after an earlier run.
C1_Witness ==
    /\ pc = "DONE"
    /\ run = 2
    /\ ops = [get |-> 1, list |-> 1, download |-> 2, archive |-> 1, upload |-> 1]

\* C3: a run in which dump_db or dump_artifacts failed returns the code of
\* the stage that failed, and EX_ZIP_CAMPAIGN_FILES_ERROR is returned only
\* when both succeeded.
C3_StageCodePropagated ==
    pc = "FAILED" =>
        /\ dbRet = EX_DUMP_FROM_DB_ERROR => ret = EX_DUMP_FROM_DB_ERROR
        /\ artRet = EX_DUMP_ARTIFACTS_ERROR => ret = EX_DUMP_ARTIFACTS_ERROR
        /\ ret = EX_ZIP_CAMPAIGN_FILES_ERROR =>
            dbRet = EX_OK /\ artRet = EX_OK

\* C4: when dump_db or dump_artifacts has failed, the archive is not opened
\* for writing (the file <BUILD_TAG>.zip is as the run found it) and nothing
\* is uploaded.
C4_NoArchiveAfterStageFailure ==
    dbRet = EX_DUMP_FROM_DB_ERROR \/ artRet = EX_DUMP_ARTIFACTS_ERROR =>
        /\ pc = "FAILED"
        /\ ops.archive = 0
        /\ zipFile = atStart.zip
        /\ ops.upload = 0
        /\ ~published.exists

\* C4 witness: dump_artifacts failed in a run that found an archive left by
\* an earlier run.
C4_Witness ==
    /\ artRet = EX_DUMP_ARTIFACTS_ERROR
    /\ atStart.zip.exists
    /\ ops.download > 0

\* the answers of a failed request, of an error status and of a body that
\* is no well-formed CampaignResult
ApiFailures == RaisingKinds \cup {"results_object"}

\* C5: when the request to the results API fails, answers with an error
\* status or with a body that is no well-formed CampaignResult, dump_db
\* returns EX_DUMP_FROM_DB_ERROR, <BUILD_TAG>.json is as the run found it,
\* the run has failed and dump_artifacts is not invoked.
C5_FetchFailureAborts ==
    ops.get > 0 /\ api.kind \in ApiFailures =>
        /\ dbRet = EX_DUMP_FROM_DB_ERROR
        /\ jsonFile = atStart.json
        /\ pc = "FAILED"
        /\ artRet = NoCode
        /\ ~listed
        /\ ops.list = 0 /\ ops.download = 0

\* the link with the base URL and the slashes after it removed
WithoutBase(lnk, base) == Drop(lnk, SkipChar(lnk, Slash, Len(base) + 1) - 1)

\* C2: after a successful dump_db every link that began with the value of
\* HTTP_DST_URL is written to <BUILD_TAG>.json without it and without the
\* slashes that followed it, and every other link is written unchanged.
C2_LinksRewritten ==
    dbRet = EX_OK /\ env.HTTP_DST_URL.set =>
        LET base == env.HTTP_DST_URL.value
        IN  /\ jsonFile.exists
            /\ Len(jsonFile.data) = Len(api.results)
            /\ \A i \in 1..Len(api.results) :
                /\ Len(jsonFile.data[i]) = Len(api.results[i])
                /\ \A j \in 1..Len(api.results[i]) :
                    LET old == api.results[i][j]
                        new == jsonFile.data[i][j]
                    IN  IF StartsWith(old, base)
                        THEN ~StartsWith(new, base) /\ new = WithoutBase(old, base)
                        ELSE new = old

\* the keys of the bucket that the listing of the run returns
ListedKeys ==
    { k \in DOMAIN bucket : StartsWith(k, ListPrefix(env.S3_DST_URL.value)) }

\* the local path of an object: its key without the path of S3_DST_URL and
\* the slashes after it
ExpectedLocal(k) ==
    LET pre == StripSlashes(UrlParse(env.S3_DST_URL.value).path)
    IN  Drop(k, SkipChar(k, Slash, Len(pre) + 1) - 1)

\* the regular files below <BUILD_TAG>/
TreeFiles == { p \in DOMAIN files : StartsWith(p, BuildTag \o << Slash >>) }

\* C6: after a successful dump_artifacts, in any run, the files below
\* <BUILD_TAG>/ are exactly the listed objects, each with its content: one
\* file for every listed object and no file without a listed object.
C6_TreeIsExactlyTheListing ==
    artRet = EX_OK =>
        /\ TreeFiles = { ExpectedLocal(k) : k \in ListedKeys }
        /\ \A k \in ListedKeys : files[ExpectedLocal(k)] = bucket[k]

\* C7: the archive a run has written holds the member <BUILD_TAG>.json and
\* one member for every regular file below <BUILD_TAG>/, each once and each
\* under its relative path, and no other member.
C7_ArchiveMembers ==
    pc \in {"PUBLISHING", "DONE"} =>
        /\ zipFile.exists
        /\ BagToSet(zipFile.members) = {JsonName} \cup TreeFiles
        /\ \A m \in BagToSet(zipFile.members) : CopiesIn(m, zipFile.members) = 1

\* C7 witness: a successful run whose archive holds the JSON document, the
\* two files it downloaded (one in a subdirectory) and a file of an earlier
\* run.
C7_Witness ==
    /\ pc = "DONE"
    /\ Cardinality(ListedKeys) = 2
    /\ BagCardinality(zipFile.members) = 4
    /\ dirs # {BuildTag}

RequiredKeys == {"S3_ENDPOINT_URL", "S3_DST_URL", "HTTP_DST_URL"}

\* C10: a run in whose environment a required variable is not set ends in
\* the except clause for KeyError, which names the variable.
C10_MissingKeyReported ==
    pc \in Terminal /\ (\E n \in RequiredKeys : Raises(env, n)) =>
        branch = "KeyError"

\* b is what is left of a when some of its first characters are removed
IsSuffix(b, a) == Len(b) <= Len(a) /\ b = Drop(a, Len(a) - Len(b))

\* C9 as stated: dump_db applied to the record it has written leaves every
\* link of it unchanged.
C9_RewriteIdempotent ==
    pc = "RETURNED" /\ run >= 2 /\ dbRet = EX_OK => jsonFile.data = given

\* C9 as amended: one application of the rewrite removes one leading match of
\* its pattern, with the slashes after it, and nothing else; a link that does
\* not begin with a match, an already rewritten one included, is returned
\* unchanged, and a link that still begins with a match is changed again.
C9_RewriteRemovesOneMatch ==
    pc = "RETURNED" /\ dbRet = EX_OK =>
        /\ Len(jsonFile.data) = Len(given)
        /\ \A i \in 1..Len(given) :
            /\ Len(jsonFile.data[i]) = Len(given[i])
            /\ \A j \in 1..Len(given[i]) :
                LET old == given[i][j]
                    new == jsonFile.data[i][j]
                IN  IF MatchesAtStart(DbLinkPattern, old)
                    THEN /\ IsSuffix(new, old)
                         /\ Len(new) <= Len(old) - Len(DbLinkPattern)
                         /\ Len(new) = Len(old) - Len(DbLinkPattern)
                              \/ old[Len(old) - Len(new)] = Slash
                         /\ new = EmptyStr \/ new[1] # Slash
                    ELSE new = old

\* C9 witness: the first application changed the link and the second one,
\* on the rewritten link, changed nothing.
C9_Witness ==
    /\ pc = "RETURNED"
    /\ run = 2
    /\ dbRet = EX_OK
    /\ given # api.results
    /\ jsonFile.data = given

\* C11: when the upload raises NoCredentialsError, the run ends in the except
\* clause for it, with EX_ZIP_CAMPAIGN_FILES_ERROR, nothing is stored in the
\* object store, and <BUILD_TAG>.zip is the archive the run has written.
C11_NoCredentialsOutcome ==
    raised = "NoCredentialsError" =>
        /\ pc = "FAILED"
        /\ branch = "NoCredentialsError"
        /\ ret = EX_ZIP_CAMPAIGN_FILES_ERROR
        /\ ops.upload = 1
        /\ ~published.exists
        /\ ops.archive = 1
        /\ zipFile = [exists |-> TRUE, members |-> ArchiveMembers(files, dirs)]

\* C11 witness: the upload of an archive with two downloaded files found no
\* credentials, in a run that replaced the archive of an earlier run.
C11_Witness ==
    /\ raised = "NoCredentialsError"
    /\ ops.download = 2
    /\ atStart.zip.exists
    /\ zipFile # atStart.zip

\* C12: when dump_artifacts has returned EX_DUMP_ARTIFACTS_ERROR it stopped
\* where the failure was: at the listing with nothing downloaded, or at one
\* object with every object before it downloaded and none after it
\* attempted; when it has returned EX_OK the listing succeeded and every
\* listed object was downloaded and is in the tree.
C12_CollectionAllOrNothing ==
    /\ artRet = EX_DUMP_ARTIFACTS_ERROR =>
        /\ pc = "FAILED"
        /\ IF listed
           THEN /\ idx <= Len(listing)
                /\ ops.download \in {idx - 1, idx}
           ELSE ops.download = 0
    /\ artRet = EX_OK =>
        /\ listed
        /\ idx = Len(listing) + 1
        /\ ops.download = Len(listing)
        /\ \A i \in 1..Len(listing) :
            LocalPath(env.S3_DST_URL.value, listing[i]) \in DOMAIN files

\* C12 witness: the download of the first of two listed objects failed, and
\* the second one was not attempted.
C12_Witness ==
    /\ artRet = EX_DUMP_ARTIFACTS_ERROR
    /\ listed
    /\ Len(listing) = 2
    /\ idx = 1
    /\ ops.download = 1

\* C13: every object dump_artifacts has downloaded is stored at the local
\* path that is its key without the path of S3_DST_URL and the slashes after
\* it, with its content, in a directory that exists.
C13_LocalPathIsKeyWithoutPrefix ==
    listed =>
        \A i \in 1..(idx - 1) :
            LET k == UnquotePlus(listing[i])
            IN  /\ ExpectedLocal(k) \in DOMAIN files
                /\ files[ExpectedLocal(k)] = bucket[k]
                /\ PathSplit(ExpectedLocal(k)).head \in dirs

\* C14: within one run the GET of the results API, the listing, the archive
\* write and the upload are each attempted at most once, and so is the
\* download of each listed object: the downloads attempted are those of the
\* objects before the current one and at most one of the current one.
C14_NothingRetried ==
    /\ ops.get <= 1
    /\ ops.list <= 1
    /\ ops.archive <= 1
    /\ ops.upload <= 1
    /\ ops.download <= Len(listing)
    /\ ops.download \in {idx - 1, idx}
    /\ ops.download = idx => pc = "FAILED"

\* C14 witness: a run of a working directory in its second run ended at the
\* failed download of the second of two objects, after one attempt at each
\* operation it reached.
C14_Witness ==
    /\ run = 2
    /\ pc = "FAILED"
    /\ ops = [get |-> 1, list |-> 1, download |-> 2, archive |-> 0, upload |-> 0]
    /\ idx = 2

\* C15: a run in whose environment a required variable is not set performs
\* no GET of the results API, no listing, no download and no upload.
C15_MissingKeyBeforeNetwork ==
    (\E n \in RequiredKeys : Raises(env, n)) =>
        /\ ops.get = 0
        /\ ops.list = 0
        /\ ops.download = 0
        /\ ops.upload = 0
        /\ pc \in Terminal => pc = "FAILED"

\* the outcome codes of the three operations
DumpDbCodes == {EX_OK, EX_DUMP_FROM_DB_ERROR}
DumpArtifactsCodes == {EX_OK, EX_DUMP_ARTIFACTS_ERROR}
ZipCampaignFilesCodes == {EX_OK, EX_ZIP_CAMPAIGN_FILES_ERROR}

\* C16: each operation that has ended has returned one of its outcome codes:
\* dump_db once the run is past the fetch, dump_artifacts once it is past the
\* collection, zip_campaign_files once the run has ended; and every
\* exception raised in the body of zip_campaign_files was caught by one of
\* its except clauses, which returned EX_ZIP_CAMPAIGN_FILES_ERROR.
C16_NoExceptionEscapes ==
    /\ pc \in {"COLLECTING", "ARCHIVING", "PUBLISHING", "DONE"} =>
        dbRet \in DumpDbCodes
    /\ pc \in {"ARCHIVING", "PUBLISHING", "DONE"} => artRet \in DumpArtifactsCodes
    /\ ops.get > 0 => dbRet \in DumpDbCodes
    /\ ops.list > 0 /\ pc # "COLLECTING" => artRet \in DumpArtifactsCodes
    /\ pc \in Terminal => ret \in ZipCampaignFilesCodes
    /\ raised # "none" =>
        /\ pc = "FAILED"
        /\ branch \in {"KeyError", "NoCredentialsError", "Exception"}
        /\ ret = EX_ZIP_CAMPAIGN_FILES_ERROR
    /\ pc = "FAILED" => raised # "none"

\* C16 witness: the archive could not be written after a collection of two
\* objects, and the run returned EX_ZIP_CAMPAIGN_FILES_ERROR.
C16_Witness ==
    /\ pc = "FAILED"
    /\ raised = "OSError"
    /\ ops.download = 2
    /\ ret = EX_ZIP_CAMPAIGN_FILES_ERROR

\* the threshold the claim states for an endpoint: 5 * 1024 ** 5 when it
\* contains "google", 8 * 1024 * 1024 otherwise
StatedThreshold(endpoint) ==
    IF \E i \in 1..(Len(endpoint) - 5) :
          SubSeq(endpoint, i, i + 5) = << "g", "o", "o", "g", "l", "e" >>
    THEN [mult |-> 5, pow |-> 5]
    ELSE [mult |-> 8, pow |-> 2]

\* C17: the transfer configuration dump_artifacts has built and the one the
\* upload has used are both the threshold stated for S3_ENDPOINT_URL, hence
\* the same.
C17_SameTransferConfig ==
    /\ ops.list > 0 =>
        tconfig = StatedThreshold(env.S3_ENDPOINT_URL.value)
    /\ published.exists =>
        /\ published.threshold = StatedThreshold(env.S3_ENDPOINT_URL.value)
        /\ published.threshold = tconfig

\* C17 witness: a run on the endpoint that contains "google" has downloaded
\* an object and uploaded the archive with the disabled threshold.
C17_Witness ==
    /\ env.S3_ENDPOINT_URL.value = EndpointGoogle
    /\ ops.download > 0
    /\ published.exists
    /\ published.threshold = [mult |-> 5, pow |-> 5]

\* C18: a run that has ended returned EX_OK exactly when it has stored the
\* archive in the object store.
C18_CodeAgreesWithUpload ==
    pc \in Terminal => (ret = EX_OK <=> published.exists)

====
